---- MODULE Spec2Model ----
(***************************************************************************)
(* Model of the image upload workflow (EnhancedCloudflareImageUploader,     *)
(* with its URL resolution getCloudflareImageUrl) and of the HTTP client   *)
(* layer (fetchWithAuth, createImagesApi) of autoelite-admin.              *)
(*                                                                         *)
(* Conventions.                                                            *)
(*  - A JavaScript string is a sequence of tokens (TLA+ strings); its      *)
(*    value is their concatenation.  A reserved prefix ("local_", "blob:", *)
(*    "http") is a token of its own when a string begins with it, and no   *)
(*    other first token begins with one of them, so startsWith is a test   *)
(*    of the first token.  The empty sequence is the empty string.         *)
(*  - Arrays are sequences; a JavaScript index i is the TLA+ index i + 1.  *)
(*  - null in the error slot is the empty sequence: no setError call of    *)
(*    the component stores the empty string.                               *)
(*  - An optional value (currentEditImage) is a sequence of length <= 1.   *)
(*  - An image record keeps the fields the handlers read or write: id,    *)
(*    url, tags and metadata.description.                                  *)
(*  - In a URL every "/" between two template parts and every part is a    *)
(*    token of its own, so that equal strings are equal token sequences.   *)
(***************************************************************************)
EXTENDS Integers, Sequences, FiniteSets, TLC

\* ------------------------------------------------------------------ bounds
\* largest batch of files handed to onDrop at once
MaxBatch == 3
\* number of user events (drop, remove, edit, ...) in one behaviour
MaxOps == 3
\* the maxImages prop of the callers: onDrop branches on maxImages === 1
\* (one image, replaced) against every other value (a gallery)
MaxImagesProps == {1, 2}

\* ----------------------------------------------------------------- strings
Digit(d) ==
    CASE d = 0 -> "0" [] d = 1 -> "1" [] d = 2 -> "2" [] d = 3 -> "3"
      [] d = 4 -> "4" [] d = 5 -> "5" [] d = 6 -> "6" [] d = 7 -> "7"
      [] d = 8 -> "8" [] OTHER -> "9"

\* `${n}` for a natural number n: its decimal digits
RECURSIVE ToStr(_)
ToStr(n) ==
    IF n < 10 THEN <<Digit(n)>> ELSE ToStr(n \div 10) \o <<Digit(n % 10)>>

StartsWith(s, prefix) == Len(s) > 0 /\ s[1] = prefix

\* JavaScript truthiness of a string
Truthy(s) == s # <<>>

\* a || b on strings
OrElse(a, b) == IF Truthy(a) THEN a ELSE b

Null == <<>>

\* ----------------------------------------------------------- configuration
\* the cfImageDeliveryUrl and cfAccountHash props of the callers; a prop
\* that is the empty string is <<>> and ""
ImageDelivery == <<"http", "s://imagedelivery.net">>
DeliveryUrls ==
    {ImageDelivery, <<"http", "s://cdn.example.com">>, <<"//cdn.example.com">>,
     <<>>}
AccountHashes == {"hash1", ""}
allowedTags == {"exterior", "interior"}

\* ------------------------------------------------------------ image records
CloudflareImage(id, url) ==
    [id |-> id, url |-> url, tags |-> <<>>, description |-> ""]

RemoteImage(k) ==
    CloudflareImage(<<"img_">> \o ToStr(k),
                    <<"http", "s://imagedelivery.net", "/", "hash1", "/",
                      "img_">> \o ToStr(k) \o <<"/", "public">>)

LocalImage(k) ==
    CloudflareImage(<<"local_">> \o ToStr(k), <<"blob:">> \o ToStr(k))

\* the existingImages prop of the callers: nothing, one image, or two, with
\* an uploaded image and a local placeholder in either position
ExistingChoices ==
    {<<>>, <<RemoteImage(1)>>, <<LocalImage(1)>>,
     <<RemoteImage(1), RemoteImage(2)>>, <<RemoteImage(1), LocalImage(1)>>,
     <<LocalImage(1), RemoteImage(1)>>}

\* longest existingImages prop
MaxExisting ==
    CHOOSE n \in 0..Cardinality(ExistingChoices) :
        /\ \E images \in ExistingChoices : Len(images) = n
        /\ \A images \in ExistingChoices : Len(images) <= n

Ids(images) == {images[i].id : i \in 1..Len(images)}

\* what reading a missing array element gives
Undefined ==
    [id |-> <<>>, url |-> <<>>, tags |-> <<>>, description |-> "undefined"]

\* a copy of s after splice(index, 1); nothing is removed past the end
RemoveAt(s, index) ==
    IF index > Len(s) THEN s
    ELSE [j \in 1..(Len(s) - 1) |-> IF j < index THEN s[j] ELSE s[j + 1]]

\* a copy of s after s[index] = x; an assignment past the end extends the
\* array, leaving the elements in between undefined
SetAt(s, index, x) ==
    [j \in 1..(IF index > Len(s) THEN index ELSE Len(s)) |->
        IF j = index THEN x ELSE IF j <= Len(s) THEN s[j] ELSE Undefined]

\* mutant: Math.floor in place of Math.round
Floor100(i, n) == (100 * i) \div n

\* Math.round((i / n) * 100)
Round100(i, n) == (200 * i + n) \div (2 * n)

\* -------------------------------------------------------- HTTP client layer
\* A JSON body: the fields the client reads.  error = <<>> when the body
\* carries no error message; image is "none" when the body has no image
\* field; variants is "none" or "array".
Body(error, success, image, variants) ==
    [error |-> error, success |-> success, image |-> image,
     variants |-> variants]

EmptyBody == Body(<<>>, FALSE, "none", "none")

\* What fetch() gives back: a rejection (reached = FALSE, with the message
\* of the rejection) or a Response (ok, status, and a body that parses as
\* JSON or does not).
Rejection(message) ==
    [reached |-> FALSE, rejectMsg |-> message, ok |-> FALSE, status |-> 0,
     parseable |-> FALSE, body |-> EmptyBody]

\* Response.ok: the status is in the range 200-299
Response(status, parseable, body) ==
    [reached |-> TRUE, rejectMsg |-> <<>>,
     ok |-> (status >= 200 /\ status <= 299),
     status |-> status, parseable |-> parseable, body |-> body]

NoResponse == Rejection(<<"none">>)

ServerErrors == {<<"Image store unavailable">>, <<"Image not found">>}

Statuses == {200, 201, 400, 401, 403, 404, 500}

HttpBodies ==
    {EmptyBody, Body(<<>>, TRUE, "present", "none")} \cup
    {Body(e, FALSE, "none", "none") : e \in ServerErrors}

HttpResponses ==
    {Rejection(<<"Failed to fetch">>)} \cup
    {Response(status, TRUE, body) : status \in Statuses, body \in HttpBodies}
    \cup {Response(status, FALSE, EmptyBody) : status \in Statuses}

\* The result of an awaited call: a thrown Error (its message) or a value.
Throw(message) == [threw |-> TRUE, message |-> message, value |-> EmptyBody]
Return(value) == [threw |-> FALSE, message |-> <<>>, value |-> value]

SessionExpired == <<"Session expired. Please log in again.">>
UnknownError == <<"Unknown error">>
JsonSyntaxError == <<"Unexpected token < in JSON at position 0">>
ApiError(status) == <<"API error: ">> \o ToStr(status)

\* mutant: an unparseable body gives an error object without a message
ErrorDataNoMessage(response) ==
    IF response.parseable THEN response.body ELSE EmptyBody

\* response.json().catch(() => ({ error: 'Unknown error' }))
ErrorData(response) ==
    IF response.parseable THEN response.body
    ELSE Body(UnknownError, FALSE, "none", "none")

\* fetchWithAuth, from the fetch result on
fetchWithAuthResult(response) ==
    IF ~response.reached THEN Throw(response.rejectMsg)
    ELSE IF ~response.ok
    THEN IF response.status = 401
         THEN Throw(SessionExpired)
         ELSE Throw(OrElse(ErrorData(response).error,
                           ApiError(response.status)))
    ELSE IF response.parseable THEN Return(response.body)
    ELSE Throw(JsonSyntaxError)

\* createImagesApi(...).upload, from the fetch result on
uploadResult(response) ==
    IF ~response.reached THEN Throw(response.rejectMsg)
    ELSE IF ~response.ok
    THEN IF response.status = 401
         THEN Throw(SessionExpired)
         ELSE Throw(OrElse(ErrorData(response).error,
                           ApiError(response.status)))
    ELSE IF response.parseable THEN Return(response.body)
    ELSE Throw(JsonSyntaxError)

\* Request headers: a record of the header values, <<>> for an absent one.
Headers(contentType, authorization) ==
    [ContentType |-> contentType, Authorization |-> authorization]

NoHeaders == Headers(<<>>, <<>>)

\* { ...a, ...b }: the entries of b win
Spread(a, b) ==
    Headers(IF b.ContentType # <<>> THEN b.ContentType ELSE a.ContentType,
            IF b.Authorization # <<>> THEN b.Authorization
            ELSE a.Authorization)

\* ...(token ? { 'Authorization': `Bearer ${token}` } : {})
BearerHeader(token) ==
    IF Truthy(token) THEN Headers(<<>>, <<"Bearer ">> \o token)
    ELSE NoHeaders

\* mutant: the Authorization entry is spread after options.headers
fetchWithAuthHeadersTokenLast(token, optionsHeaders) ==
    Spread(Spread(Headers(<<"application/json">>, <<>>), optionsHeaders),
           BearerHeader(token))

\* the headers fetchWithAuth sends
fetchWithAuthHeaders(token, optionsHeaders) ==
    Spread(Spread(Headers(<<"application/json">>, <<>>), BearerHeader(token)),
           optionsHeaders)

\* the headers createImagesApi(...).upload sends
uploadHeaders(token) == Spread(NoHeaders, BearerHeader(token))

\* getToken(): localStorage.getItem('authToken'), <<>> when there is none
Tokens == {<<>>, <<"tok_1">>}

OptionsHeaders ==
    {NoHeaders, Headers(<<"text/plain">>, <<>>), Headers(<<>>, <<"Basic x">>)}

\* calls of the HTTP layer: the images API facade
Endpoints == {"fetchWithAuth", "upload"}

\* ------------------------------------------- the imagesApi prop (injected)
\* What an awaited imagesApi call gives the uploader: a value, or a thrown
\* Error whose message may be empty.
ApiFailures == {SessionExpired, <<>>}

DeleteOutcomes ==
    {Return(Body(<<>>, TRUE, "none", "none"))} \cup
    {Throw(message) : message \in ApiFailures}

UploadOutcomes ==
    { Return(Body(<<>>, TRUE, "present", "none")),
      Return(Body(<<>>, TRUE, "present", "array")),
      Return(Body(<<>>, TRUE, "none", "none")),
      Return(Body(<<>>, FALSE, "none", "none")) } \cup
    {Throw(message) : message \in ApiFailures}

\* ------------------------------------------------------------------- state
VARIABLES
    maxImages,            \* prop
    cfImageDeliveryUrl,   \* prop
    cfAccountHash,        \* prop
    uploadedImages,       \* useState: the image list
    isUploading,          \* useState
    uploadProgress,       \* useState
    error,                \* useState: the error slot (Null = null)
    editImageDialogOpen,  \* useState
    currentEditImage,     \* useState: <<>> or <<[image, index]>>
    newTag,               \* useState: the custom tag text field
    customTags,           \* useState
    drop,                 \* the onDrop invocation that is awaiting a call
    removes,              \* the handleRemoveImage invocations awaiting delete
    calls,                \* every imagesApi call issued so far, in order
    notified,             \* onImagesUploaded: number of calls, last argument
    revoked,              \* the URLs passed to URL.revokeObjectURL
    nextId,               \* the storage service's id counter
    ops,                  \* user events so far
    ev,                   \* the last event handled, with what held before it
    history,              \* the ids removed, the ids uploaded, whether saved
    http,                 \* the call of the HTTP client layer under way
    rendered              \* the getCloudflareImageUrl call made last

vars ==
    <<maxImages, uploadedImages, isUploading, uploadProgress, error,
      editImageDialogOpen, currentEditImage, newTag, customTags, drop,
      removes, calls, notified, revoked, nextId, ops, ev, history, http,
      cfImageDeliveryUrl, cfAccountHash, rendered>>

renderVars == <<cfImageDeliveryUrl, cfAccountHash, rendered>>

editVars ==
    <<editImageDialogOpen, currentEditImage, newTag, customTags, http,
      renderVars>>

\* start: the number of imagesApi calls issued before the invocation
IdleDrop ==
    [pc |-> "idle", images |-> <<>>, n |-> 0, i |-> 0, k |-> 0,
     newImages |-> <<>>, start |-> 0]

Event(op, index, n, out) ==
    [op |-> op, index |-> index, n |-> n, out |-> out,
     images |-> uploadedImages, error |-> error, notified |-> notified.count,
     calls |-> Len(calls), isUploading |-> isUploading,
     edit |-> currentEditImage, batch |-> drop.newImages, tag |-> ""]

\* the event of a tag handler, with the tag it was given
TagEvent(op, tag) == [Event(op, 0, 0, Return(EmptyBody)) EXCEPT !.tag = tag]

NoOut == Return(EmptyBody)

IdleHttp ==
    [pc |-> "idle", endpoint |-> "fetchWithAuth", headers |-> NoHeaders,
     token |-> <<>>, optionsHeaders |-> NoHeaders, response |-> NoResponse,
     out |-> NoOut]

IdleRender ==
    [pc |-> "idle", imageUrl |-> <<>>, variant |-> <<>>, src |-> <<>>]

\* the component as mounted with the given props
Mounted(maxImagesProp, existingImages, deliveryUrl, accountHash) ==
    /\ maxImages = maxImagesProp
    /\ cfImageDeliveryUrl = deliveryUrl
    /\ cfAccountHash = accountHash
    /\ uploadedImages = existingImages
    /\ rendered = IdleRender
    /\ isUploading = FALSE
    /\ uploadProgress = 0
    /\ error = Null
    /\ editImageDialogOpen = FALSE
    /\ currentEditImage = <<>>
    /\ newTag = ""
    /\ customTags = <<>>
    /\ drop = IdleDrop
    /\ removes = <<>>
    /\ calls = <<>>
    /\ notified = [count |-> 0, last |-> <<>>]
    /\ revoked = {}
    /\ nextId = 1
    /\ ops = 0
    /\ ev = [op |-> "init", index |-> 0, n |-> 0, out |-> NoOut,
             images |-> <<>>, error |-> Null, notified |-> 0, calls |-> 0,
             isUploading |-> FALSE, edit |-> <<>>, batch |-> <<>>,
             tag |-> ""]
    /\ history = [removed |-> {}, uploaded |-> {}, saved |-> FALSE]
    /\ http = IdleHttp

\* the uploader of a page whose image delivery is the default one
Init ==
    \E maxImagesProp \in MaxImagesProps, existingImages \in ExistingChoices :
        Mounted(maxImagesProp, existingImages, ImageDelivery, "hash1")

\* ------------------------------------------------------------------ onDrop
CapacityError ==
    <<"You can only upload a maximum of ">> \o ToStr(maxImages)
        \o <<" images.">>
InvalidUploadResponse ==
    <<"Failed to upload image: Invalid response from server">>
UploadFallbackError == <<"Failed to upload images. Please try again.">>
RemoveFallbackError == <<"Failed to remove image">>
UndefinedIdError ==
    <<"Cannot read properties of undefined (reading 'id')">>

DeleteCall(id) == [api |-> "delete", id |-> id, file |-> 0]
UploadCall(i) == [api |-> "upload", id |-> <<>>, file |-> i]

\* mutant: the placeholder prefix is not tested
IsRemoteAnyId(image) == Truthy(image.id)

\* has a real (non-placeholder) id: image.id && !image.id.startsWith('local_')
IsRemote(image) == Truthy(image.id) /\ ~StartsWith(image.id, "local_")

\* The part of the component state an onDrop invocation writes.
Machine ==
    [drop |-> drop, calls |-> calls, uploadProgress |-> uploadProgress,
     uploadedImages |-> uploadedImages, notified |-> notified,
     isUploading |-> isUploading, error |-> error, history |-> history]

Notify(count, images) == [count |-> count.count + 1, last |-> images]

\* finally { setIsUploading(false); setUploadProgress(0); }
Finally(m) ==
    [m EXCEPT !.isUploading = FALSE, !.uploadProgress = 0, !.drop = IdleDrop]

\* mutant: the reset is at the end of the try block, not in a finally
CatchNoFinally(m, message) ==
    [m EXCEPT !.error = OrElse(message, UploadFallbackError),
              !.drop = IdleDrop]

\* catch (err) { setError(err.message || '...') }
Catch(m, message) ==
    Finally([m EXCEPT !.error = OrElse(message, UploadFallbackError)])

\* after the loop: replace (maxImages = 1) or append, store and notify
Commit(m) ==
    LET updatedImages ==
            IF maxImages = 1 THEN m.drop.newImages
            ELSE m.drop.images \o m.drop.newImages
    IN  Finally([m EXCEPT !.uploadedImages = updatedImages,
                          !.notified = Notify(m.notified, updatedImages),
                          !.history.uploaded =
                              @ \cup Ids(m.drop.newImages)])

\* the head of the upload loop with loop variable i (0-based): report the
\* progress and issue the upload of file i, or leave the loop
UploadLoop(m, i) ==
    IF i < m.drop.n
    THEN [m EXCEPT !.uploadProgress = Round100(i, m.drop.n),
                   !.calls = Append(@, UploadCall(i)),
                   !.drop.pc = "uploading", !.drop.i = i]
    ELSE Commit(m)

\* the cleanup loop of a replacement, from element k (1-based) on: issue the
\* delete of the first remote image, or go on to the uploads
RECURSIVE DeleteLoop(_, _)
DeleteLoop(m, k) ==
    IF k > Len(m.drop.images) THEN UploadLoop(m, 0)
    ELSE IF m.drop.images[k] = Undefined THEN Catch(m, UndefinedIdError)
    ELSE IF IsRemote(m.drop.images[k])
    THEN [m EXCEPT !.calls = Append(@, DeleteCall(m.drop.images[k].id)),
                   !.drop.pc = "deleting", !.drop.k = k]
    ELSE DeleteLoop(m, k + 1)

\* onDrop from setIsUploading(true) to its first await (or its end)
Accept(m, n) ==
    LET started ==
            [m EXCEPT !.isUploading = TRUE, !.error = Null,
                      !.drop = [IdleDrop EXCEPT !.images = m.uploadedImages,
                                                !.n = n,
                                                !.start = Len(m.calls)]]
    IN  IF maxImages = 1 /\ Len(m.uploadedImages) > 0
        THEN DeleteLoop(started, 1)
        ELSE UploadLoop(started, 0)

\* the image record built from a successful upload response
\* imageData.variants[0] of the response that carries the id
VariantUrl(id) ==
    <<"http", "s://imagedelivery.net", "/", "hash1", "/">> \o id
        \o <<"/", "thumbnail">>
\* `https://imagedelivery.net/${cfAccountHash}/${imageData.id}/public`
FallbackUrl(id) ==
    <<"http", "s://imagedelivery.net", "/", cfAccountHash, "/">> \o id
        \o <<"/", "public">>
NewImage(id, body) ==
    CloudflareImage(id, IF body.variants = "none" THEN FallbackUrl(id)
                        ELSE VariantUrl(id))

ServerId(k) == <<"cf_">> \o ToStr(k)

\* mutant: a response without the success shape is skipped and the loop
\* goes on with the next file
AfterUploadSkipInvalid(m, out) ==
    IF out.threw THEN Catch(m, out.message)
    ELSE IF out.value.success /\ out.value.image # "none"
    THEN UploadLoop([m EXCEPT !.drop.newImages =
                                Append(@, NewImage(ServerId(nextId),
                                                   out.value))],
                    m.drop.i + 1)
    ELSE UploadLoop(m, m.drop.i + 1)

\* onDrop after the awaited upload of file drop.i came back
AfterUpload(m, out) ==
    IF out.threw THEN Catch(m, out.message)
    ELSE IF out.value.success /\ out.value.image # "none"
    THEN UploadLoop([m EXCEPT !.drop.newImages =
                                Append(@, NewImage(ServerId(nextId),
                                                   out.value))],
                    m.drop.i + 1)
    ELSE Catch(m, InvalidUploadResponse)

\* onDrop after the awaited cleanup delete came back: a failure is logged
\* and the loop goes on
AfterDelete(m, out) == DeleteLoop(m, m.drop.k + 1)

Store(m) ==
    /\ drop' = m.drop
    /\ calls' = m.calls
    /\ uploadProgress' = m.uploadProgress
    /\ uploadedImages' = m.uploadedImages
    /\ notified' = m.notified
    /\ isUploading' = m.isUploading
    /\ error' = m.error
    /\ history' = m.history

\* useDropzone({ disabled: ... }): the dropzone ignores drops while disabled
DropzoneDisabled == isUploading \/ Len(uploadedImages) >= maxImages

\* the edit dialog is modal: while it is open the page behind it gets no
\* user events
PageInteractive == ~editImageDialogOpen

\* mutant: the capacity check counts the new files only
ExceedsCapacityNewOnly(n) == n > maxImages

\* the capacity check of onDrop
ExceedsCapacity(n) == Len(uploadedImages) + n > maxImages

\* the user drops n files while the dropzone is disabled: nothing runs
DropIgnored(n) ==
    /\ ops < MaxOps
    /\ PageInteractive
    /\ DropzoneDisabled
    /\ ops' = ops + 1
    /\ ev' = Event("dropIgnored", 0, n, NoOut)
    /\ UNCHANGED <<maxImages, uploadedImages, isUploading, uploadProgress,
                   error, drop, removes, calls, notified, revoked, nextId,
                   history>>
    /\ UNCHANGED editVars

\* onDrop(acceptedFiles) with n files
onDrop(n) ==
    /\ ops < MaxOps
    /\ PageInteractive
    /\ ~DropzoneDisabled
    /\ ops' = ops + 1
    /\ IF ExceedsCapacity(n)
       THEN /\ error' = CapacityError
            /\ ev' = Event("dropRejected", 0, n, NoOut)
            /\ UNCHANGED <<uploadedImages, isUploading, uploadProgress, drop,
                           calls, notified, history>>
       ELSE /\ Store(Accept(Machine, n))
            /\ ev' = Event("dropAccepted", 0, n, NoOut)
    /\ UNCHANGED <<maxImages, removes, revoked, nextId>>
    /\ UNCHANGED editVars

\* the call onDrop awaits comes back and onDrop runs to its next await
onDropResume(out) ==
    /\ drop.pc # "idle"
    /\ IF drop.pc = "deleting"
       THEN /\ out \in DeleteOutcomes
            /\ Store(AfterDelete(Machine, out))
            /\ ev' = Event("dropDeleteReturned", drop.k, drop.n, out)
            /\ nextId' = nextId
       ELSE /\ out \in UploadOutcomes
            /\ Store(AfterUpload(Machine, out))
            /\ ev' = Event("dropUploadReturned", drop.i, drop.n, out)
            /\ nextId' = IF out.threw THEN nextId ELSE nextId + 1
    /\ UNCHANGED <<maxImages, removes, revoked, ops>>
    /\ UNCHANGED editVars

\* ------------------------------------------------------- handleRemoveImage
\* the grid renders uploadedImages.filter(image => image && image.url) and
\* hands each handler the position in the filtered list
Rendered ==
    SelectSeq(uploadedImages, LAMBDA im : im # Undefined /\ Truthy(im.url))

IsBlobUrl(url) == StartsWith(url, "blob:")

\* mutant: the caller is handed the list as it was before the splice
RemoveLocallyNotifyOld(images, index) ==
    /\ revoked' = IF IsBlobUrl(images[index].url)
                  THEN revoked \cup {images[index].url}
                  ELSE revoked
    /\ uploadedImages' = RemoveAt(images, index)
    /\ notified' = Notify(notified, images)
    /\ error' = error
    /\ history' = [history EXCEPT !.removed = @ \cup {images[index].id}]

\* handleRemoveImage from the blob check on, on the list `images` the
\* invocation was created with
RemoveLocally(images, index) ==
    /\ revoked' = IF IsBlobUrl(images[index].url)
                  THEN revoked \cup {images[index].url}
                  ELSE revoked
    /\ uploadedImages' = RemoveAt(images, index)
    /\ notified' = Notify(notified, RemoveAt(images, index))
    /\ error' = error
    /\ history' = [history EXCEPT !.removed = @ \cup {images[index].id}]

\* mutant: the catch block stores err.message as it is
RemoveCatchNoFallback(message) ==
    /\ error' = message
    /\ UNCHANGED <<uploadedImages, notified, revoked, history>>

\* catch (err) { setError(err.message || 'Failed to remove image') }
RemoveCatch(message) ==
    /\ error' = OrElse(message, RemoveFallbackError)
    /\ UNCHANGED <<uploadedImages, notified, revoked, history>>

\* handleRemoveImage(index) up to its await (or its end)
handleRemoveImage(index) ==
    /\ ops < MaxOps
    /\ PageInteractive
    /\ index \in 1..Len(Rendered)
    /\ ops' = ops + 1
    /\ ev' = Event("remove", index, 0, NoOut)
    /\ IF uploadedImages[index] = Undefined
       THEN /\ RemoveCatch(UndefinedIdError)
            /\ UNCHANGED <<removes, calls>>
       ELSE IF IsRemote(uploadedImages[index])
       THEN /\ calls' = Append(calls, DeleteCall(uploadedImages[index].id))
            /\ removes' = Append(removes, [images |-> uploadedImages,
                                           index |-> index])
            /\ UNCHANGED <<uploadedImages, notified, revoked, error, history>>
       ELSE /\ RemoveLocally(uploadedImages, index)
            /\ UNCHANGED <<removes, calls>>
    /\ UNCHANGED <<maxImages, isUploading, uploadProgress, drop, nextId>>
    /\ UNCHANGED editVars

\* the delete awaited by the j-th pending handleRemoveImage comes back
handleRemoveImageResume(j, out) ==
    /\ j \in 1..Len(removes)
    /\ out \in DeleteOutcomes
    /\ removes' = RemoveAt(removes, j)
    /\ ev' = Event("removeReturned", removes[j].index, 0, out)
    /\ IF out.threw
       THEN RemoveCatch(out.message)
       ELSE RemoveLocally(removes[j].images, removes[j].index)
    /\ UNCHANGED <<maxImages, isUploading, uploadProgress, drop, calls,
                   nextId, ops>>
    /\ UNCHANGED editVars

\* ------------------------------------------------------------ edit dialog
uploaderVars ==
    <<maxImages, uploadedImages, isUploading, uploadProgress, error, drop,
      removes, calls, notified, revoked, nextId, history, http, renderVars>>

\* handleEditImage(image, index), from the edit button of a rendered image
handleEditImage(index) ==
    /\ ops < MaxOps
    /\ PageInteractive
    /\ index \in 1..Len(Rendered)
    /\ ops' = ops + 1
    /\ ev' = Event("edit", index, 0, NoOut)
    /\ currentEditImage' = <<[image |-> Rendered[index], index |-> index]>>
    /\ editImageDialogOpen' = TRUE
    /\ UNCHANGED <<newTag, customTags>>
    /\ UNCHANGED uploaderVars

Includes(tags, tag) == \E i \in 1..Len(tags) : tags[i] = tag

\* mutant: the tag is appended without the includes test
AddTagNoIncludes(edit, tag) ==
    IF edit = <<>> THEN edit
    ELSE IF tag # ""
    THEN <<[edit[1] EXCEPT !.image.tags = Append(@, tag)]>>
    ELSE edit

\* handleAddTag(tag): what it leaves in currentEditImage
AddTag(edit, tag) ==
    IF edit = <<>> THEN edit
    ELSE IF tag # "" /\ ~Includes(edit[1].image.tags, tag)
    THEN <<[edit[1] EXCEPT !.image.tags = Append(@, tag)]>>
    ELSE edit

\* mutant: handleAddTag stores the newImages it builds
handleTagSelectStores(tag) ==
    /\ ops < MaxOps
    /\ editImageDialogOpen
    /\ tag \in allowedTags
    /\ ops' = ops + 1
    /\ ev' = TagEvent("addTag", tag)
    /\ currentEditImage' = AddTag(currentEditImage, tag)
    /\ newTag' = ""
    /\ uploadedImages' =
           IF currentEditImage = <<>> THEN uploadedImages
           ELSE SetAt(uploadedImages, currentEditImage[1].index,
                      AddTag(currentEditImage, tag)[1].image)
    /\ UNCHANGED <<editImageDialogOpen, customTags>>
    /\ UNCHANGED <<maxImages, isUploading, uploadProgress, error, drop,
                   removes, calls, notified, revoked, nextId, history, http,
                   renderVars>>

\* handleTagSelect: a tag picked in the select of the dialog
handleTagSelect(tag) ==
    /\ ops < MaxOps
    /\ editImageDialogOpen
    /\ tag \in allowedTags
    /\ ops' = ops + 1
    /\ ev' = TagEvent("addTag", tag)
    /\ currentEditImage' = AddTag(currentEditImage, tag)
    /\ newTag' = ""
    /\ UNCHANGED <<editImageDialogOpen, customTags>>
    /\ UNCHANGED uploaderVars

CustomTagInputs == {"", "rare"}

\* handleCustomTagChange: typing in the custom tag field
handleCustomTagChange(value) ==
    /\ ops < MaxOps
    /\ editImageDialogOpen
    /\ value \in CustomTagInputs
    /\ ops' = ops + 1
    /\ ev' = Event("tagInput", 0, 0, NoOut)
    /\ newTag' = value
    /\ UNCHANGED <<editImageDialogOpen, currentEditImage, customTags>>
    /\ UNCHANGED uploaderVars

\* handleAddCustomTag: the Add button, disabled while the field is empty
handleAddCustomTag ==
    /\ ops < MaxOps
    /\ editImageDialogOpen
    /\ newTag # ""
    /\ ops' = ops + 1
    /\ ev' = TagEvent("addTag", newTag)
    /\ customTags' = IF ~Includes(customTags, newTag)
                     THEN Append(customTags, newTag)
                     ELSE customTags
    /\ currentEditImage' = AddTag(currentEditImage, newTag)
    /\ newTag' = ""
    /\ UNCHANGED editImageDialogOpen
    /\ UNCHANGED uploaderVars

\* handleRemoveTag(tagToRemove), from the chip of a tag of the editing copy
handleRemoveTag(tagToRemove) ==
    /\ ops < MaxOps
    /\ editImageDialogOpen
    /\ currentEditImage # <<>>
    /\ Includes(currentEditImage[1].image.tags, tagToRemove)
    /\ ops' = ops + 1
    /\ ev' = TagEvent("removeTag", tagToRemove)
    /\ currentEditImage' =
           <<[currentEditImage[1] EXCEPT !.image.tags =
                 SelectSeq(@, LAMBDA tag : tag # tagToRemove)]>>
    /\ UNCHANGED <<editImageDialogOpen, newTag, customTags>>
    /\ UNCHANGED uploaderVars

Descriptions == {"", "front view"}

\* handleUpdateDescription(description)
handleUpdateDescription(description) ==
    /\ ops < MaxOps
    /\ editImageDialogOpen
    /\ currentEditImage # <<>>
    /\ description \in Descriptions
    /\ ops' = ops + 1
    /\ ev' = Event("description", 0, 0, NoOut)
    /\ currentEditImage' =
           <<[currentEditImage[1] EXCEPT !.image.description = description]>>
    /\ UNCHANGED <<editImageDialogOpen, newTag, customTags>>
    /\ UNCHANGED uploaderVars

\* handleSaveImageMetadata, the Save Changes button
handleSaveImageMetadata ==
    /\ ops < MaxOps
    /\ editImageDialogOpen
    /\ ops' = ops + 1
    /\ ev' = Event("save", 0, 0, NoOut)
    /\ IF currentEditImage = <<>>
       THEN UNCHANGED <<uploadedImages, notified, editImageDialogOpen,
                        currentEditImage, history>>
       ELSE LET newImages == SetAt(uploadedImages, currentEditImage[1].index,
                                   currentEditImage[1].image)
            IN  /\ uploadedImages' = newImages
                /\ notified' = Notify(notified, newImages)
                /\ editImageDialogOpen' = FALSE
                /\ currentEditImage' = <<>>
                /\ history' = [history EXCEPT !.saved = TRUE]
    /\ UNCHANGED <<maxImages, isUploading, uploadProgress, error, drop,
                   removes, calls, revoked, nextId, newTag, customTags,
                   http, renderVars>>

\* Cancel, or closing the dialog: setEditImageDialogOpen(false)
CancelEdit ==
    /\ ops < MaxOps
    /\ editImageDialogOpen
    /\ ops' = ops + 1
    /\ ev' = Event("cancel", 0, 0, NoOut)
    /\ editImageDialogOpen' = FALSE
    /\ UNCHANGED <<currentEditImage, newTag, customTags>>
    /\ UNCHANGED uploaderVars

\* ------------------------------------------------- getCloudflareImageUrl
\* variant: string = 'public': the argument is <<>> when it is left out
VariantOrDefault(variant) == IF variant = <<>> THEN "public" ELSE variant[1]

\* mutant: only http URLs are returned as they are
getCloudflareImageUrlHttpOnly(imageUrl, variant) ==
    IF ~Truthy(imageUrl) THEN <<>>
    ELSE IF StartsWith(imageUrl, "http") THEN imageUrl
    ELSE IF Truthy(cfImageDeliveryUrl) /\ cfAccountHash # ""
    THEN cfImageDeliveryUrl \o <<"/", cfAccountHash, "/">> \o imageUrl
             \o <<"/", VariantOrDefault(variant)>>
    ELSE imageUrl

\* getCloudflareImageUrl(imageUrl, variant); a null or undefined imageUrl
\* is <<>>, as the empty string is
getCloudflareImageUrl(imageUrl, variant) ==
    IF ~Truthy(imageUrl) THEN <<>>
    ELSE IF StartsWith(imageUrl, "blob:") \/ StartsWith(imageUrl, "http")
    THEN imageUrl
    ELSE IF Truthy(cfImageDeliveryUrl) /\ cfAccountHash # ""
    THEN cfImageDeliveryUrl \o <<"/", cfAccountHash, "/">> \o imageUrl
             \o <<"/", VariantOrDefault(variant)>>
    ELSE imageUrl

\* the stored url values handed to getCloudflareImageUrl
StoredValues ==
    {<<>>, <<"abc123">>, <<"img_", "1">>, <<"blob:", "1">>,
     <<"http", "://plain.example/a.png">>,
     <<"http", "s://imagedelivery.net", "/", "hash1", "/", "abc123", "/",
       "public">>,
     <<"//cdn.example.com", "/", "hash1", "/", "abc123", "/", "public">>}

Variants == {<<>>, <<"public">>, <<"thumbnail">>}

\* an <img src={getCloudflareImageUrl(...)}> is rendered
RenderImage(imageUrl, variant) ==
    /\ rendered' = [pc |-> "done", imageUrl |-> imageUrl, variant |-> variant,
                    src |-> getCloudflareImageUrl(imageUrl, variant)]
    /\ UNCHANGED <<maxImages, uploadedImages, isUploading, uploadProgress,
                   error, editImageDialogOpen, currentEditImage, newTag,
                   customTags, drop, removes, calls, notified, revoked,
                   nextId, ops, ev, history, http, cfImageDeliveryUrl,
                   cfAccountHash>>

\* ----------------------------------------------- calls of the HTTP layer
\* fetchWithAuth / upload up to the awaited fetch
HttpSend(endpoint, token, optionsHeaders) ==
    /\ http.pc # "sent"
    /\ endpoint = "upload" => optionsHeaders = NoHeaders
    /\ http' = [pc |-> "sent", endpoint |-> endpoint, token |-> token,
                optionsHeaders |-> optionsHeaders,
                headers |-> IF endpoint = "upload" THEN uploadHeaders(token)
                            ELSE fetchWithAuthHeaders(token, optionsHeaders),
                response |-> NoResponse, out |-> NoOut]
    /\ UNCHANGED <<maxImages, uploadedImages, isUploading, uploadProgress,
                   error, editImageDialogOpen, currentEditImage, newTag,
                   customTags, drop, removes, calls, notified, revoked,
                   nextId, ops, ev, history, renderVars>>

\* the fetch settles and the call returns or throws
HttpReceive(response) ==
    /\ http.pc = "sent"
    /\ http' = [http EXCEPT
                  !.pc = "done", !.response = response,
                  !.out = IF http.endpoint = "upload"
                          THEN uploadResult(response)
                          ELSE fetchWithAuthResult(response)]
    /\ UNCHANGED <<maxImages, uploadedImages, isUploading, uploadProgress,
                   error, editImageDialogOpen, currentEditImage, newTag,
                   customTags, drop, removes, calls, notified, revoked,
                   nextId, ops, ev, history, renderVars>>

\* ------------------------------------------------------------ specification
NetworkReturns ==
    \/ \E out \in DeleteOutcomes \cup UploadOutcomes : onDropResume(out)
    \/ \E j \in 1..MaxOps, out \in DeleteOutcomes :
           handleRemoveImageResume(j, out)

Next ==
    \/ \E n \in 0..MaxBatch : DropIgnored(n)
    \/ \E n \in 0..MaxBatch : onDrop(n)
    \/ \E out \in DeleteOutcomes \cup UploadOutcomes : onDropResume(out)
    \/ \E index \in 1..MaxExisting + MaxBatch : handleRemoveImage(index)
    \/ \E j \in 1..MaxOps, out \in DeleteOutcomes :
           handleRemoveImageResume(j, out)
    \/ \E index \in 1..MaxExisting + MaxBatch : handleEditImage(index)
    \/ \E tag \in allowedTags : handleTagSelect(tag)
    \/ \E value \in CustomTagInputs : handleCustomTagChange(value)
    \/ handleAddCustomTag
    \/ \E tag \in allowedTags \cup CustomTagInputs : handleRemoveTag(tag)
    \/ \E description \in Descriptions : handleUpdateDescription(description)
    \/ handleSaveImageMetadata
    \/ CancelEdit

\* the uploader component
Spec == Init /\ [][Next]_vars

\* every awaited network call eventually returns or fails
FairSpec == Spec /\ WF_vars(NetworkReturns)

\* the HTTP client layer on its own: one call after another
HttpInit == Mounted(1, <<>>, ImageDelivery, "hash1")

HttpNext ==
    \/ \E endpoint \in Endpoints, token \in Tokens,
          optionsHeaders \in OptionsHeaders :
           HttpSend(endpoint, token, optionsHeaders)
    \/ \E response \in HttpResponses : HttpReceive(response)

HttpSpec == HttpInit /\ [][HttpNext]_vars

\* a gallery that holds one full batch, filled by drops only, on a page with
\* any image delivery
GalleryInit ==
    \E deliveryUrl \in DeliveryUrls :
        Mounted(MaxBatch, <<>>, deliveryUrl, "hash1")

GalleryNext ==
    \/ \E n \in 0..MaxBatch : DropIgnored(n)
    \/ \E n \in 0..MaxBatch : onDrop(n)
    \/ \E out \in UploadOutcomes : onDropResume(out)

GallerySpec == GalleryInit /\ [][GalleryNext]_vars

\* getCloudflareImageUrl on its own, under every configuration
RenderInit ==
    \E deliveryUrl \in DeliveryUrls, accountHash \in AccountHashes :
        Mounted(1, <<>>, deliveryUrl, accountHash)

RenderNext ==
    \E imageUrl \in StoredValues, variant \in Variants :
        RenderImage(imageUrl, variant)

RenderSpec == RenderInit /\ [][RenderNext]_vars

\* -------------------------------------------------------------- properties
DropDelivered == ev.op \in {"dropRejected", "dropAccepted"}

DropOps ==
    {"dropIgnored", "dropRejected", "dropAccepted", "dropDeleteReturned",
     "dropUploadReturned"}

\* the upload awaited by the last event came back with the success shape
SuccessShaped(out) ==
    ~out.threw /\ out.value.success /\ out.value.image # "none"

\* C1: a batch handed to onDrop with current length + batch size > maxImages
\* issues no imagesApi call, sets the capacity error and leaves the uploader
\* idle (no invocation awaiting, isUploading false before and after).
C1_OverCapacityAborts ==
    (DropDelivered /\ Len(ev.images) + ev.n > maxImages) =>
        /\ Len(calls) = ev.calls
        /\ error = CapacityError
        /\ drop = IdleDrop
        /\ ~ev.isUploading /\ ~isUploading /\ uploadProgress = 0
        /\ uploadedImages = ev.images
        /\ notified.count = ev.notified

C1_Witness ==
    /\ DropDelivered
    /\ Len(ev.images) + ev.n > maxImages
    /\ Len(ev.images) > 0

\* C2: with maxImages = 1 and the list holding exactly the image "img_1",
\* a drop of one file whose calls all succeed ends with the calls
\* <<delete img_1, upload>> issued in this order, the list holding exactly
\* the newly uploaded image, and that list notified to the caller.
C2_ReplaceScenario ==
    ( /\ maxImages = 1
      /\ ops = 1
      /\ ev.op \in DropOps
      /\ ev.n = 1
      /\ ev.images = <<RemoteImage(1)>>
      /\ drop = IdleDrop
      /\ ev.op = "dropUploadReturned" => SuccessShaped(ev.out) ) =>
        /\ calls = <<DeleteCall(RemoteImage(1).id), UploadCall(0)>>
        /\ Len(uploadedImages) = 1
        /\ uploadedImages[1].id = ServerId(1)
        /\ notified = [count |-> 1, last |-> uploadedImages]

\* C3: no completed operation is lost: as long as no editing copy was
\* saved, an image whose removal completed is not in the list, and once no
\* handler is awaiting a call every image of a completed batch is in the
\* list unless its removal completed.
C3_NoLostUpdate ==
    ~history.saved =>
        /\ \A id \in history.removed : id \notin Ids(uploadedImages)
        /\ (drop = IdleDrop /\ removes = <<>>) =>
               history.uploaded \subseteq
                   (Ids(uploadedImages) \cup history.removed)

\* C4: Save of an editing context leaves a list of the length the list had
\* just before Save, with the editing copy at the context's index and every
\* other entry unchanged; that list is notified and the context discarded.
C4_SaveCommitsAtIndex ==
    (ev.op = "save" /\ ev.edit # <<>>) =>
        /\ Len(uploadedImages) = Len(ev.images)
        /\ \A j \in 1..Len(uploadedImages) :
               uploadedImages[j] = IF j = ev.edit[1].index
                                   THEN ev.edit[1].image
                                   ELSE ev.images[j]
        /\ ev.edit[1].index \in 1..Len(uploadedImages)
        /\ notified = [count |-> ev.notified + 1, last |-> uploadedImages]
        /\ currentEditImage = <<>>

\* C5: when the remote delete awaited by handleRemoveImage fails, the list
\* is unchanged, the caller is not notified, and the error slot holds the
\* failure's message, or 'Failed to remove image' when it has none.
C5_FailedDeleteKeepsList ==
    (ev.op = "removeReturned" /\ ev.out.threw) =>
        /\ uploadedImages = ev.images
        /\ notified.count = ev.notified
        /\ error = IF ev.out.message # <<>> THEN ev.out.message
                   ELSE <<"Failed to remove image">>

C5_Witness ==
    /\ ev.op = "removeReturned"
    /\ ev.out.threw
    /\ ev.out.message = <<>>
    /\ Len(ev.images) = 2

\* C6: when the upload of file k > 0 of a batch throws or comes back without
\* the success shape, the error slot is set and the images uploaded for the
\* files before k are in the image list once the batch has ended.
C6_PartialBatchKept ==
    ( /\ ev.op = "dropUploadReturned"
      /\ ev.index > 0
      /\ ~SuccessShaped(ev.out) ) =>
        /\ error # Null
        /\ drop = IdleDrop
        /\ \A j \in 1..Len(ev.batch) :
               ev.batch[j].id \in Ids(uploadedImages)

\* C7: idle -> uploading -> idle.  While an onDrop invocation is awaiting a
\* call isUploading is true; whenever none is, isUploading is false and the
\* progress is 0; and, every awaited call returning or failing, an uploading
\* uploader becomes idle again with isUploading false and progress 0.
C7_UploadingEnds ==
    /\ [](drop.pc # "idle" => isUploading)
    /\ [](drop.pc = "idle" => (~isUploading /\ uploadProgress = 0))
    /\ (isUploading ~> (~isUploading /\ uploadProgress = 0 /\ drop = IdleDrop))

C7_Witness ==
    /\ ev.op = "dropUploadReturned"
    /\ ev.isUploading
    /\ ~ev.out.threw /\ ~ev.out.value.success
    /\ ~isUploading

\* C8: every operation clears the error of an earlier one: after a remove
\* or a batch that completed successfully the error slot is empty, and after
\* a failed one it holds that operation's message.
RemoveSucceeded ==
    \/ ev.op = "removeReturned" /\ ~ev.out.threw
    \/ ev.op = "remove" /\ notified.count = ev.notified + 1

BatchSucceeded ==
    /\ ev.op \in {"dropAccepted", "dropUploadReturned"}
    /\ notified.count = ev.notified + 1

C8_NewOperationClearsError ==
    /\ (RemoveSucceeded \/ BatchSucceeded) => error = Null
    /\ (ev.op = "removeReturned" /\ ev.out.threw) =>
           error = OrElse(ev.out.message, RemoveFallbackError)
    /\ (ev.op = "dropUploadReturned" /\ ev.out.threw) =>
           error = OrElse(ev.out.message, UploadFallbackError)

\* C9 (as claimed): a non-success response fails with the session-expired
\* error on 401; on any other status with the server's message when the
\* body is JSON carrying one, and with 'API error: <status>' when the body
\* is not parseable JSON.
HttpFailed ==
    http.pc = "done" /\ http.response.reached /\ ~http.response.ok

C9_ErrorTranslation ==
    HttpFailed =>
        http.out =
            IF http.response.status = 401 THEN Throw(SessionExpired)
            ELSE IF ~http.response.parseable
            THEN Throw(ApiError(http.response.status))
            ELSE IF http.response.body.error # <<>>
            THEN Throw(http.response.body.error)
            ELSE http.out

\* C9 (amended): ... with 'Unknown error' when the body is not parseable
\* JSON, and with 'API error: <status>' when the body is JSON that carries
\* no error message.
C9_ErrorTranslationAmended ==
    HttpFailed =>
        http.out =
            IF http.response.status = 401 THEN Throw(SessionExpired)
            ELSE IF ~http.response.parseable
            THEN Throw(<<"Unknown error">>)
            ELSE IF http.response.body.error # <<>>
            THEN Throw(http.response.body.error)
            ELSE Throw(<<"API error: ">> \o ToStr(http.response.status))

C9_Witness ==
    /\ HttpFailed
    /\ http.endpoint = "upload"
    /\ http.response.status = 500
    /\ ~http.response.parseable

\* C10: handleRemoveImage on an image whose id begins with 'local_' issues
\* no imagesApi call; the image is removed from the list and the caller is
\* notified with the new list.
RemovedLocal ==
    /\ ev.op = "remove"
    /\ ev.index <= Len(ev.images)
    /\ StartsWith(ev.images[ev.index].id, "local_")

C10_PlaceholderNeverDeletedRemotely ==
    RemovedLocal =>
        /\ Len(calls) = ev.calls
        /\ Len(uploadedImages) = Len(ev.images) - 1
        /\ \A j \in 1..Len(uploadedImages) :
               uploadedImages[j] = ev.images[IF j < ev.index THEN j ELSE j + 1]
        /\ notified = [count |-> ev.notified + 1, last |-> uploadedImages]

C10_Witness == RemovedLocal /\ Len(ev.images) = 2 /\ ev.index = 2

\* the image record built from the upload response that came back last
NewestImage ==
    IF drop.pc = "idle" THEN uploadedImages[Len(uploadedImages)]
    ELSE drop.newImages[Len(drop.newImages)]

UploadSucceeded == ev.op = "dropUploadReturned" /\ SuccessShaped(ev.out)

\* C11: the image record built from a successful upload response has the
\* response's id and no tags, and its URL is the first variant of the
\* response when the response carries variants and otherwise
\* <configured delivery base>/<account hash>/<id>/public.
C11_NewImageUrl ==
    UploadSucceeded =>
        /\ NewestImage.id = ServerId(nextId - 1)
        /\ NewestImage.tags = <<>>
        /\ NewestImage.url =
               IF ev.out.value.variants # "none"
               THEN VariantUrl(NewestImage.id)
               ELSE cfImageDeliveryUrl \o <<"/", cfAccountHash, "/">>
                        \o NewestImage.id \o <<"/", "public">>

\* the upload calls the onDrop invocation under way has issued, in order
BatchUploads ==
    SelectSeq(SubSeq(calls, drop.start + 1, Len(calls)),
              LAMBDA call : call.api = "upload")

\* C12: the uploads of a batch are issued one after another in index order:
\* while the upload of file i is awaited the batch has issued exactly the
\* uploads of the files 0..i, once each, and those of 0..i-1 have come back
\* with the success shape; the return of a success-shaped upload of file i
\* issues exactly the upload of file i + 1 (none after the last file); a
\* failed or malformed upload ends the batch with no further call; and no
\* other handler issues an upload.
C12_UploadsSequential ==
    /\ drop.pc = "uploading" =>
           /\ drop.i < drop.n
           /\ BatchUploads = [j \in 1..(drop.i + 1) |-> UploadCall(j - 1)]
           /\ Len(drop.newImages) = drop.i
    /\ (UploadSucceeded /\ ev.index + 1 < ev.n) =>
           /\ drop.pc = "uploading" /\ drop.i = ev.index + 1
           /\ Len(calls) = ev.calls + 1
           /\ calls[Len(calls)] = UploadCall(ev.index + 1)
    /\ (UploadSucceeded /\ ev.index + 1 >= ev.n) =>
           drop = IdleDrop /\ Len(calls) = ev.calls
    /\ (ev.op = "dropUploadReturned" /\ ~SuccessShaped(ev.out)) =>
           drop = IdleDrop /\ Len(calls) = ev.calls
    /\ ev.op \notin {"dropAccepted", "dropDeleteReturned",
                     "dropUploadReturned"} =>
           \A j \in (ev.calls + 1)..Len(calls) : calls[j].api # "upload"

C12_Witness ==
    /\ UploadSucceeded
    /\ ev.index = 0
    /\ drop.pc = "uploading"
    /\ drop.i = 1
    /\ Len(calls) = 2

NoDuplicates(tags) ==
    \A i, j \in 1..Len(tags) : i # j => tags[i] # tags[j]

TagAdded == ev.op = "addTag" /\ ev.edit # <<>>

\* C14: a tag add with a tag the editing copy already has leaves the
\* editing copy as it was, and any other tag handed to it is appended once;
\* on every editing copy reached, adding an empty or present tag changes
\* nothing and adding a tag twice gives what adding it once gives; and the
\* tags of the editing copy never hold a duplicate.
C14_DuplicateTagNoOp ==
    /\ (TagAdded /\ Includes(ev.edit[1].image.tags, ev.tag)) =>
           currentEditImage = ev.edit
    /\ (TagAdded /\ ~Includes(ev.edit[1].image.tags, ev.tag)) =>
           currentEditImage[1].image.tags =
               Append(ev.edit[1].image.tags, ev.tag)
    /\ currentEditImage # <<>> =>
           /\ NoDuplicates(currentEditImage[1].image.tags)
           /\ \A tag \in allowedTags \cup CustomTagInputs :
                  /\ (tag = "" \/ Includes(currentEditImage[1].image.tags,
                                           tag)) =>
                         AddTag(currentEditImage, tag) = currentEditImage
                  /\ AddTag(AddTag(currentEditImage, tag), tag) =
                         AddTag(currentEditImage, tag)

C14_Witness ==
    /\ TagAdded
    /\ Includes(ev.edit[1].image.tags, ev.tag)
    /\ currentEditImage = ev.edit
    /\ Len(currentEditImage[1].image.tags) = 1

EditOps == {"addTag", "removeTag", "description", "tagInput"}

\* C15: a tag add, a tag remove and a description update leave the image
\* list as it was and do not notify the caller; so does Cancel; and
\* whenever an event of the dialog changes the list, it is Save.
C15_EditsTouchOnlyCopy ==
    /\ ev.op \in EditOps \cup {"cancel"} =>
           /\ uploadedImages = ev.images
           /\ notified.count = ev.notified
    /\ (ev.op \in EditOps \cup {"cancel", "save", "edit"}
            /\ uploadedImages # ev.images) => ev.op = "save"

C15_Witness ==
    /\ ev.op = "cancel"
    /\ currentEditImage # <<>>
    /\ currentEditImage[1].image.tags # <<>>
    /\ currentEditImage[1].index <= Len(uploadedImages)
    /\ uploadedImages[currentEditImage[1].index].tags = <<>>

\* <delivery base>/<account hash>/<stored value>/<variant>, the variant
\* being 'public' when none is given
ComposedUrl ==
    cfImageDeliveryUrl \o <<"/", cfAccountHash, "/">> \o rendered.imageUrl
        \o <<"/", IF rendered.variant = <<>> THEN "public"
                  ELSE rendered.variant[1]>>

LooksLikeUrl(value) ==
    StartsWith(value, "http") \/ StartsWith(value, "blob:")

\* C16 (as claimed): getCloudflareImageUrl returns a stored value that
\* begins with 'http' or 'blob:' unchanged and for every other stored value
\* <delivery base>/<account hash>/<stored value>/<variant>; when the
\* delivery base begins with 'http', resolving the result again returns it
\* unchanged.
C16_ResolveUrl ==
    rendered.pc = "done" =>
        /\ rendered.src = IF LooksLikeUrl(rendered.imageUrl)
                          THEN rendered.imageUrl
                          ELSE ComposedUrl
        /\ StartsWith(cfImageDeliveryUrl, "http") =>
               getCloudflareImageUrl(rendered.src, rendered.variant) =
                   rendered.src

\* C16 (amended): ... and for every other stored value that is not empty,
\* when the delivery base and the account hash are both configured
\* (non-empty), <delivery base>/<account hash>/<stored value>/<variant>; an
\* empty or missing stored value gives the empty string, and with the base
\* or the hash not configured the stored value is returned unchanged; when
\* the delivery base begins with 'http', resolving the result again returns
\* it unchanged.
C16_ResolveUrlAmended ==
    rendered.pc = "done" =>
        /\ rendered.src =
               IF rendered.imageUrl = <<>> THEN <<>>
               ELSE IF LooksLikeUrl(rendered.imageUrl) THEN rendered.imageUrl
               ELSE IF cfImageDeliveryUrl # <<>> /\ cfAccountHash # ""
               THEN ComposedUrl
               ELSE rendered.imageUrl
        /\ StartsWith(cfImageDeliveryUrl, "http") =>
               getCloudflareImageUrl(rendered.src, rendered.variant) =
                   rendered.src

C16_Witness ==
    /\ rendered.pc = "done"
    /\ rendered.imageUrl = <<"abc123">>
    /\ rendered.variant = <<>>
    /\ cfImageDeliveryUrl = <<"http", "s://imagedelivery.net">>
    /\ cfAccountHash = "hash1"
    /\ rendered.src = <<"http", "s://imagedelivery.net", "/", "hash1", "/",
                        "abc123", "/", "public">>

\* the first non-placeholder image of a list: its position, 0 when none
FirstRemote(images) ==
    IF \E k \in 1..Len(images) : IsRemote(images[k])
    THEN CHOOSE k \in 1..Len(images) :
             /\ IsRemote(images[k])
             /\ \A j \in 1..(k - 1) : ~IsRemote(images[j])
    ELSE 0

\* a batch of at least one file is dropped on an idle single-image uploader
\* that holds images
ReplacementDropped ==
    /\ ev.op \in {"dropIgnored", "dropRejected", "dropAccepted"}
    /\ maxImages = 1
    /\ Len(ev.images) > 0
    /\ ev.n >= 1
    /\ ~ev.isUploading

BlobUrls(images) ==
    {images[i].url : i \in {j \in 1..Len(images) : IsBlobUrl(images[j].url)}}

\* C18: a local-preview URL whose record left the list in the last event
\* has been released, and no local-preview URL of a record in the list has
\* been released.
C18_BlobReleasedOnLeave ==
    /\ \A url \in BlobUrls(ev.images) \ BlobUrls(uploadedImages) :
           ev.op # "init" => url \in revoked
    /\ \A url \in BlobUrls(uploadedImages) : url \notin revoked

HttpIssued == http.pc \in {"sent", "done"}

\* what the claim says of Content-Type: none set by upload; for
\* fetchWithAuth the caller's, and JSON when the caller gives none
ContentTypeAsClaimed ==
    http.headers.ContentType =
        IF http.endpoint = "upload" THEN <<>>
        ELSE IF http.optionsHeaders.ContentType # <<>>
        THEN http.optionsHeaders.ContentType
        ELSE <<"application/json">>

\* C19 (as claimed): a request issued by fetchWithAuth or by upload carries
\* 'Authorization: Bearer <token>' when getToken returns a token and no
\* Authorization header when it returns none; upload sets no Content-Type
\* and fetchWithAuth sends the caller's Content-Type, JSON by default.
C19_AuthorizationHeader ==
    HttpIssued =>
        /\ http.headers.Authorization =
               IF http.token # <<>> THEN <<"Bearer ">> \o http.token
               ELSE <<>>
        /\ ContentTypeAsClaimed

\* C19 (amended): ... unless the caller of fetchWithAuth supplies an
\* Authorization header of its own in options.headers, which then is the
\* one sent, with or without a token.
C19_AuthorizationHeaderAmended ==
    HttpIssued =>
        /\ http.headers.Authorization =
               IF http.optionsHeaders.Authorization # <<>>
               THEN http.optionsHeaders.Authorization
               ELSE IF http.token # <<>> THEN <<"Bearer ">> \o http.token
               ELSE <<>>
        /\ ContentTypeAsClaimed

C19_Witness ==
    /\ http.pc = "sent"
    /\ http.endpoint = "upload"
    /\ http.token = <<>>
    /\ http.headers = NoHeaders

\* the last event is an operation that failed
OperationFailed ==
    \/ ev.op = "dropRejected"
    \/ ev.op = "removeReturned" /\ ev.out.threw
    \/ ev.op = "dropUploadReturned" /\ ~SuccessShaped(ev.out)
    \/ ev.op = "remove" /\ error # ev.error

\* C20: an event that changes the image list notifies the caller exactly
\* once, with the new list; a failed operation leaves the list as it was
\* and does not notify; and once the caller has been notified, the list it
\* was notified of last is the image list.
C20_CallerViewConsistent ==
    /\ (ev.op # "init" /\ uploadedImages # ev.images) =>
           notified = [count |-> ev.notified + 1, last |-> uploadedImages]
    /\ notified.count \in {ev.notified, ev.notified + 1}
    /\ OperationFailed =>
           uploadedImages = ev.images /\ notified.count = ev.notified
    /\ notified.count > 0 => notified.last = uploadedImages

C20_Witness ==
    /\ ev.op = "removeReturned"
    /\ ~ev.out.threw
    /\ notified.count = 2
    /\ notified.last = uploadedImages
    /\ Len(uploadedImages) = 1

====
